---- MODULE Spec2Model ----
(***************************************************************************)
(* ResearchAgent.run / ResearchAgent.generate_research_report of           *)
(* src/main.py as a state machine.                                         *)
(*                                                                         *)
(* Every call the pipeline makes into a collaborator                       *)
(* (generate_research_topics, requests.get, analyze_data, matplotlib,      *)
(* create_presentation, narrate_report, MCPClient.send_report) is an       *)
(* input of the model: it either returns a value drawn from a small set or *)
(* raises an exception.  Exceptions are classified by the only distinction *)
(* the code makes: requests.RequestException (caught inside                *)
(* fetch_web_data) and every other subclass of Exception.                  *)
(*                                                                         *)
(* A DataFrame is the sequence of its rows; a row is the number in its     *)
(* 'value' column.  A dict is a function from its keys.                    *)
(***************************************************************************)
EXTENDS Naturals, Sequences, FiniteSets

VARIABLES
    topic,              \* main_topic / topic argument
    subtopics,          \* local subtopics of generate_research_report
    idx,                \* position of the for loop over subtopics (1-based)
    page_content,       \* local page_content
    data_frames,        \* local data_frames
    combined_data,      \* local combined_data
    presentation_path,  \* local presentation_path
    narration,          \* local narration
    report,             \* local report of run: what generate_research_report returned
    returned,           \* generate_research_report has returned to run
    escaped,            \* exception that left generate_research_report, or "none"
    sent,               \* arguments of the send_report calls made so far
    log,                \* records written through logger
    trace,              \* history: the collaborator calls made, with their outcomes
    pc                  \* the statement run / generate_research_report is at

vars == <<topic, subtopics, idx, page_content, data_frames, combined_data,
          presentation_path, narration, report, returned, escaped, sent, log,
          trace, pc>>

-----------------------------------------------------------------------------
(* Bounds and input sets *)

MaxSubtopics == 2

Topics == {"AI in Healthcare", "Robotics"}

SubtopicNames == {"History of AI", "AI in Diagnostics"}

Pages == {"page text"}

Frames == {<<>>, <<1>>, <<1, 2>>, <<2, 1>>}

PresentationPaths == {"presentation.pptx"}

Narrations == {"narration text"}

Exceptions == {"RequestException", "Exception"}

SubtopicLists ==
    UNION {[1..n -> SubtopicNames] : n \in 0..MaxSubtopics}

-----------------------------------------------------------------------------
(* Values *)

EmptyDict == [k \in {} |-> k]

ReportKeys ==
    {"topic", "subtopics", "data", "visualization", "presentation", "narration"}

Event(step, i, out, val) == [step |-> step, i |-> i, out |-> out, val |-> val]

Logged(level, msg) == [level |-> level, msg |-> msg]

Unset == [unset |-> TRUE]

-----------------------------------------------------------------------------
(* Exception handling *)

\* fetch_web_data: except requests.RequestException
FetchCatches(e) == e = "RequestException"

\* A handler narrowed to the class fetch_web_data catches.
ReportCatchesRequestOnly(e) == e = "RequestException"

\* generate_research_report: except Exception
ReportCatches(e) == e \in Exceptions

\* A handler narrowed to the class fetch_web_data catches.
RunCatchesRequestOnly(e) == e = "RequestException"

\* run: except Exception
RunCatches(e) == e \in Exceptions

\* The handler of run, reached by an exception raised inside its try block.
RunExcept(e) ==
    IF RunCatches(e)
    THEN /\ log' = Append(log, Logged("error", "Error running agent"))
         /\ pc' = "done"
    ELSE /\ log' = log
         /\ pc' = "raised"

\* An exception raised inside the try block of generate_research_report:
\* the handler logs and returns {}; what it does not catch reaches run.
GenerateExcept(e) ==
    IF ReportCatches(e)
    THEN /\ log' = Append(log, Logged("error", "Error generating report"))
         /\ report' = EmptyDict
         /\ returned' = TRUE
         /\ escaped' = escaped
         /\ pc' = "send"
    ELSE /\ escaped' = e
         /\ UNCHANGED <<report, returned>>
         /\ RunExcept(e)

-----------------------------------------------------------------------------
(* Pure helpers *)

\* The frames joined last to first.
RECURSIVE PdConcatReversed(_)
PdConcatReversed(frames) ==
    IF frames = <<>> THEN <<>>
    ELSE PdConcatReversed(Tail(frames)) \o Head(frames)

\* pd.concat(data_frames, ignore_index=True): the rows of the frames, in list
\* order, renumbered from the start.
RECURSIVE PdConcat(_)
PdConcat(frames) ==
    IF frames = <<>> THEN <<>>
    ELSE Head(frames) \o PdConcat(Tail(frames))

\* A loop that leaves after its first iteration.
AfterIterationBreaks(i, n) == "concat"

\* for subtopic in subtopics: where control goes after the body ran for
\* position i of n.
AfterIteration(i, n) == IF i < n THEN "fetch" ELSE "concat"

\* A report literal that lacks the narration entry.
CompiledReportNoNarration ==
    [topic |-> topic,
     subtopics |-> subtopics,
     data |-> combined_data,
     visualization |-> "analysis_plot.png",
     presentation |-> presentation_path]

\* The report literal of step 7.
CompiledReport ==
    [topic |-> topic,
     subtopics |-> subtopics,
     data |-> combined_data,
     visualization |-> "analysis_plot.png",
     presentation |-> presentation_path,
     narration |-> narration]

-----------------------------------------------------------------------------
(* State machine *)

Init ==
    /\ topic \in Topics
    /\ subtopics = <<>>
    /\ idx = 1
    /\ page_content = ""
    /\ data_frames = <<>>
    /\ combined_data = <<>>
    /\ presentation_path = ""
    /\ narration = ""
    /\ report = Unset
    /\ returned = FALSE
    /\ escaped = "none"
    /\ sent = <<>>
    /\ log = <<>>
    /\ trace = <<>>
    /\ pc = "run"

\* run: report = self.generate_research_report(main_topic) is entered.
Run ==
    /\ pc = "run"
    /\ pc' = "decompose"
    /\ UNCHANGED <<topic, subtopics, idx, page_content, data_frames,
                   combined_data, presentation_path, narration, report,
                   returned, escaped, sent, log, trace>>

\* Step 1: subtopics = generate_research_topics(topic); data_frames = [].
GenerateTopics ==
    /\ pc = "decompose"
    /\ \/ \E subs \in SubtopicLists :
            /\ subtopics' = subs
            /\ log' = Append(log, Logged("info", "Generated subtopics"))
            /\ data_frames' = <<>>
            /\ idx' = 1
            /\ trace' = Append(trace, Event("decompose", 0, "ok", subs))
            /\ pc' = IF subs = <<>> THEN "concat" ELSE "fetch"
            /\ UNCHANGED <<report, returned, escaped>>
       \/ \E e \in Exceptions :
            /\ trace' = Append(trace, Event("decompose", 0, e, <<>>))
            /\ GenerateExcept(e)
            /\ UNCHANGED <<subtopics, data_frames, idx>>
    /\ UNCHANGED <<topic, page_content, combined_data, presentation_path,
                   narration, sent>>

\* Step 2, first half: page_content = self.fetch_web_data(url).
FetchWebData ==
    /\ pc = "fetch"
    /\ \/ \E page \in Pages :
            /\ page_content' = page
            /\ log' = Append(log, Logged("info", "Fetched data"))
            /\ trace' = Append(trace, Event("fetch", idx, "ok", page))
            /\ pc' = "analyze"
            /\ UNCHANGED <<report, returned, escaped>>
       \/ \E e \in Exceptions :
            /\ trace' = Append(trace, Event("fetch", idx, e, <<>>))
            /\ IF FetchCatches(e)
               THEN /\ log' = Append(log, Logged("error", "Error fetching data"))
                    /\ page_content' = ""
                    /\ pc' = "analyze"
                    /\ UNCHANGED <<report, returned, escaped>>
               ELSE /\ GenerateExcept(e)
                    /\ UNCHANGED page_content
    /\ UNCHANGED <<topic, subtopics, idx, data_frames, combined_data,
                   presentation_path, narration, sent>>

\* Step 2, second half: df = analyze_data(page_content); data_frames.append(df).
AnalyzeData ==
    /\ pc = "analyze"
    /\ \/ \E df \in Frames :
            /\ data_frames' = Append(data_frames, df)
            /\ trace' = Append(trace, Event("analyze", idx, "ok", df))
            /\ pc' = AfterIteration(idx, Len(subtopics))
            /\ idx' = idx + 1
            /\ UNCHANGED <<report, returned, escaped, log>>
       \/ \E e \in Exceptions :
            /\ trace' = Append(trace, Event("analyze", idx, e, <<>>))
            /\ GenerateExcept(e)
            /\ UNCHANGED <<data_frames, idx>>
    /\ UNCHANGED <<topic, subtopics, page_content, combined_data,
                   presentation_path, narration, sent>>

\* Step 3: combined_data = pd.concat(data_frames, ignore_index=True).
\* pd.concat raises ValueError ("No objects to concatenate") on an empty list.
Concat ==
    /\ pc = "concat"
    /\ IF data_frames = <<>>
       THEN /\ trace' = Append(trace, Event("concat", 0, "Exception", <<>>))
            /\ GenerateExcept("Exception")
            /\ UNCHANGED combined_data
       ELSE /\ combined_data' = PdConcat(data_frames)
            /\ trace' = Append(trace, Event("concat", 0, "ok", <<>>))
            /\ pc' = "plot"
            /\ UNCHANGED <<report, returned, escaped, log>>
    /\ UNCHANGED <<topic, subtopics, idx, page_content, data_frames,
                   presentation_path, narration, sent>>

\* Step 4: the figure is drawn from combined_data['value'] and saved.  Whether
\* pandas/matplotlib raise (no 'value' column, nothing to plot, the file cannot
\* be written) is not decided by this code: both outcomes are kept.
Plot ==
    /\ pc = "plot"
    /\ \/ /\ trace' = Append(trace, Event("plot", 0, "ok", combined_data))
          /\ pc' = "present"
          /\ UNCHANGED <<report, returned, escaped, log>>
       \/ \E e \in Exceptions :
            /\ trace' = Append(trace, Event("plot", 0, e, combined_data))
            /\ GenerateExcept(e)
    /\ UNCHANGED <<topic, subtopics, idx, page_content, data_frames,
                   combined_data, presentation_path, narration, sent>>

\* Step 5: presentation_path = create_presentation(topic, "analysis_plot.png").
CreatePresentation ==
    /\ pc = "present"
    /\ \/ \E path \in PresentationPaths :
            /\ presentation_path' = path
            /\ trace' = Append(trace, Event("present", 0, "ok", path))
            /\ pc' = "narrate"
            /\ UNCHANGED <<report, returned, escaped, log>>
       \/ \E e \in Exceptions :
            /\ trace' = Append(trace, Event("present", 0, e, <<>>))
            /\ GenerateExcept(e)
            /\ UNCHANGED presentation_path
    /\ UNCHANGED <<topic, subtopics, idx, page_content, data_frames,
                   combined_data, narration, sent>>

\* Step 6: narration = narrate_report(topic, combined_data).
NarrateReport ==
    /\ pc = "narrate"
    /\ \/ \E n \in Narrations :
            /\ narration' = n
            /\ trace' = Append(trace, Event("narrate", 0, "ok", n))
            /\ pc' = "compile"
            /\ UNCHANGED <<report, returned, escaped, log>>
       \/ \E e \in Exceptions :
            /\ trace' = Append(trace, Event("narrate", 0, e, <<>>))
            /\ GenerateExcept(e)
            /\ UNCHANGED narration
    /\ UNCHANGED <<topic, subtopics, idx, page_content, data_frames,
                   combined_data, presentation_path, sent>>

\* Step 7: the report dict is built and returned to run.
Compile ==
    /\ pc = "compile"
    /\ report' = CompiledReport
    /\ returned' = TRUE
    /\ trace' = Append(trace, Event("compile", 0, "ok", <<>>))
    /\ pc' = "send"
    /\ UNCHANGED <<topic, subtopics, idx, page_content, data_frames,
                   combined_data, presentation_path, narration, escaped,
                   sent, log>>

\* run: self.mcp_client.send_report(report), then the success message.
SendReport ==
    /\ pc = "send"
    /\ sent' = Append(sent, report)
    /\ \/ /\ trace' = Append(trace, Event("send", 0, "ok", <<>>))
          /\ log' = Append(log, Logged("info", "Report successfully sent"))
          /\ pc' = "done"
       \/ \E e \in Exceptions :
            /\ trace' = Append(trace, Event("send", 0, e, <<>>))
            /\ RunExcept(e)
    /\ UNCHANGED <<topic, subtopics, idx, page_content, data_frames,
                   combined_data, presentation_path, narration, report,
                   returned, escaped>>

Next ==
    \/ Run
    \/ GenerateTopics
    \/ FetchWebData
    \/ AnalyzeData
    \/ Concat
    \/ Plot
    \/ CreatePresentation
    \/ NarrateReport
    \/ Compile
    \/ SendReport

Spec == Init /\ [][Next]_vars

\* The interpreter runs the next statement of a started call.
FairSpec == Spec /\ WF_vars(Next)

-----------------------------------------------------------------------------
(* Reading the history *)

\* Positions of the trace holding a call of `step` for loop position i.
Calls(step, i) ==
    {k \in 1..Len(trace) : trace[k].step = step /\ trace[k].i = i}

Attempted(step, i) == Calls(step, i) # {}

Succeeded(step, i) == \E k \in Calls(step, i) : trace[k].out = "ok"

Failed(step, i) == \E k \in Calls(step, i) : trace[k].out # "ok"

\* What the call of `step` for position i returned.
Result(step, i) == trace[CHOOSE k \in Calls(step, i) : TRUE].val

\* The rows analyze_data returned for position i (none if it returned nothing).
RowsFrom(i) == IF Succeeded("analyze", i) THEN Result("analyze", i) ELSE <<>>

\* Number of rows returned for the positions before i.
RECURSIVE Offset(_)
Offset(i) == IF i <= 1 THEN 0 ELSE Offset(i - 1) + Len(RowsFrom(i - 1))

\* An exception raised inside the try block of generate_research_report
\* (a RequestException of the fetch never gets there).
RaisedInTry(ev) ==
    /\ ev.out # "ok"
    /\ ev.step # "send"
    /\ ~(ev.step = "fetch" /\ ev.out = "RequestException")

FullReport == returned /\ DOMAIN report = ReportKeys

Count(msg) == Cardinality({k \in 1..Len(log) : log[k].msg = msg})

\* The steps of one run over n subtopics, in program order.
Canonical(n) ==
    <<<<"decompose", 0>>>>
    \o [k \in 1..(2 * n) |->
          IF k % 2 = 1 THEN <<"fetch", (k + 1) \div 2>>
                       ELSE <<"analyze", k \div 2>>]
    \o << <<"concat", 0>>, <<"plot", 0>>, <<"present", 0>>,
          <<"narrate", 0>>, <<"compile", 0>> >>

Labels(tr) == [k \in 1..Len(tr) |-> <<tr[k].step, tr[k].i>>]

IsPrefix(s, t) == Len(s) <= Len(t) /\ \A k \in 1..Len(s) : s[k] = t[k]

\* The trace without the send_report call of run.
PipelineTrace ==
    IF trace # <<>> /\ trace[Len(trace)].step = "send"
    THEN SubSeq(trace, 1, Len(trace) - 1)
    ELSE trace

-----------------------------------------------------------------------------
(* Claims *)

\* C1: whatever the collaborators do (return or raise), generate_research_report
\* terminates and returns a value to run; no exception ever leaves it.
C1_GenerateAlwaysReturns == [](escaped = "none") /\ <>returned

\* C1 witness: a collaborator raised inside the pipeline and the call returned.
C1_Witness ==
    /\ returned
    /\ escaped = "none"
    /\ Failed("analyze", 2)

\* C7: in a returned report the rows of data are those of the subtopics in list
\* order, each subtopic's rows in the order analyze_data returned them; data is
\* determined by the extraction results alone.
C7_RowOrder ==
    FullReport =>
        /\ Len(report.data) = Offset(Len(subtopics) + 1)
        /\ \A i \in 1..Len(subtopics) :
             \A k \in 1..Len(RowsFrom(i)) :
                report.data[Offset(i) + k] = RowsFrom(i)[k]

\* C7 witness: two subtopics returned different row orders and the report holds
\* the first subtopic's rows, then the second's.
C7_Witness ==
    /\ FullReport
    /\ Len(subtopics) = 2
    /\ RowsFrom(1) = <<1, 2>>
    /\ RowsFrom(2) = <<2, 1>>
    /\ report.data = <<1, 2, 2, 1>>

\* C8: the calls of one run happen in program order, each once: decomposition,
\* then fetch and analysis of each subtopic in list order, then concat, plot,
\* presentation, narration, compilation; a step runs only after its predecessor
\* finished; send_report happens only after generate_research_report returned.
C8_StepOrder ==
    /\ IsPrefix(Labels(PipelineTrace), Canonical(Len(subtopics)))
    /\ \A k \in 1..(Len(PipelineTrace) - 1) : ~RaisedInTry(PipelineTrace[k])
    /\ \A k \in 1..Len(PipelineTrace) : PipelineTrace[k].step # "send"
    /\ Attempted("send", 0) => returned
    /\ Attempted("concat", 0) =>
          \A i \in 1..Len(subtopics) :
             Attempted("fetch", i) /\ Attempted("analyze", i)

\* C8 witness: a complete run over two subtopics, sent to the sink.
C8_Witness ==
    /\ pc = "done"
    /\ Len(subtopics) = 2
    /\ Labels(trace) = Canonical(2) \o << <<"send", 0>> >>

\* C9: the returned value is {} or a dict with all six keys; it is {} exactly
\* when a step inside the try block raised, and a six-key report means that
\* decomposition, every analysis, concat, plot, presentation and narration
\* completed without raising.
C9_AllOrNothing ==
    returned =>
        /\ DOMAIN report = {} \/ DOMAIN report = ReportKeys
        /\ DOMAIN report = {} <=> \E k \in 1..Len(trace) : RaisedInTry(trace[k])
        /\ DOMAIN report = ReportKeys =>
              /\ Succeeded("decompose", 0)
              /\ \A i \in 1..Len(subtopics) : Succeeded("analyze", i)
              /\ Succeeded("concat", 0)
              /\ Succeeded("plot", 0)
              /\ Succeeded("present", 0)
              /\ Succeeded("narrate", 0)

\* C9 witness: a six-key report was returned although a fetch failed with a
\* RequestException (caught inside fetch_web_data, outside the try block's view).
C9_Witness ==
    /\ FullReport
    /\ \E k \in 1..Len(trace) :
          trace[k].step = "fetch" /\ trace[k].out = "RequestException"

\* C10: run calls send_report exactly once, with what generate_research_report
\* returned ({} included), and never raises; a sink failure is logged once, the
\* success message is logged only when send_report returned, nothing is retried.
C10_RunSendsOnce ==
    /\ pc # "raised"
    /\ Len(sent) <= 1
    /\ Cardinality(Calls("send", 0)) = Len(sent)
    /\ pc = "done" =>
          /\ returned
          /\ sent = <<report>>
          /\ Count("Report successfully sent") =
                (IF Succeeded("send", 0) THEN 1 ELSE 0)
          /\ Count("Error running agent") = (IF Failed("send", 0) THEN 1 ELSE 0)
    /\ pc # "done" =>
          Count("Report successfully sent") + Count("Error running agent") = 0

\* C10 witness: the pipeline failed, {} was handed to the sink, the sink failed
\* too, and run ended normally.
C10_Witness ==
    /\ pc = "done"
    /\ sent = <<EmptyDict>>
    /\ Failed("send", 0)
    /\ Count("Error running agent") = 1

-----------------------------------------------------------------------------
(* Claims the code does not meet *)

\* The failure entries a report records for the fetch of position i.
FetchFailureEntries(r, i) ==
    IF "errors" \in DOMAIN r
    THEN {k \in DOMAIN r.errors : r.errors[k] = <<"FetchFailure", i>>}
    ELSE {}

\* The artifact entries a report marks failed.
FailedArtifacts(r) ==
    IF "artifacts" \in DOMAIN r
    THEN {k \in DOMAIN r.artifacts : r.artifacts[k].status = "failed"}
    ELSE {}

\* The rows of the subtopics whose analysis returned, in list order.
RECURSIVE RowsUpTo(_)
RowsUpTo(n) == IF n = 0 THEN <<>> ELSE RowsUpTo(n - 1) \o RowsFrom(n)

\* r holds topic, subtopic list and data table as computed by the pipeline.
Populated(r) ==
    /\ {"topic", "subtopics", "data"} \subseteq DOMAIN r
    /\ r.topic = topic
    /\ r.subtopics = subtopics
    /\ r.data = RowsUpTo(Len(subtopics))

\* The fetch of position i failed the way fetch_web_data reports a failed
\* fetch (a RequestException), and every other call returned.
OnlyFetchFailed(i) ==
    /\ \E k \in Calls("fetch", i) : trace[k].out = "RequestException"
    /\ \A k \in 1..Len(PipelineTrace) :
          PipelineTrace[k].out # "ok" =>
             PipelineTrace[k].step = "fetch" /\ PipelineTrace[k].i = i

\* C2: if the fetch of subtopic i fails and every other step succeeds, the
\* returned report has no rows from i, exactly one fetch-failure entry for i,
\* and the rows of every other subtopic as their analyses returned them.
C2_FetchFailureIsolated ==
    returned =>
        \A i \in 1..Len(subtopics) :
            OnlyFetchFailed(i) =>
                /\ Populated(report)
                /\ RowsFrom(i) = <<>>
                /\ Cardinality(FetchFailureEntries(report, i)) = 1

\* C3: a failed analysis of subtopic i, or a fetch of i failing with any error,
\* does not abort the run: every later subtopic is still fetched and analysed
\* and the returned report holds the rows of the subtopics that succeeded.
C3_FailureDoesNotAbort ==
    returned =>
        \A i \in 1..Len(subtopics) :
            (Failed("analyze", i) \/ Failed("fetch", i)) =>
                /\ \A j \in (i + 1)..Len(subtopics) :
                      Attempted("fetch", j) /\ Attempted("analyze", j)
                /\ Populated(report)

\* C4: when decomposition returns N subtopics, the returned report lists exactly
\* those N, exactly N fetch/analysis attempts were made, and every row of its
\* data table is a row of exactly one of them.
C4_ReportCoversSubtopics ==
    (returned /\ Succeeded("decompose", 0)) =>
        /\ Populated(report)
        /\ report.subtopics = Result("decompose", 0)
        /\ \A i \in 1..Len(subtopics) :
              /\ Cardinality(Calls("fetch", i)) = 1
              /\ Cardinality(Calls("analyze", i)) = 1

\* C5: a failing artifact step (plot, presentation, narration) does not keep the
\* later artifact steps from being attempted, and the returned report still
\* holds topic, subtopics and data, with one failed entry per failed artifact.
C5_ArtifactFailuresDegrade ==
    returned =>
        /\ Failed("plot", 0) =>
              Attempted("present", 0) /\ Attempted("narrate", 0)
        /\ Failed("present", 0) => Attempted("narrate", 0)
        /\ (Failed("plot", 0) \/ Failed("present", 0) \/ Failed("narrate", 0)) =>
              /\ Populated(report)
              /\ Cardinality(FailedArtifacts(report)) =
                    Cardinality({a \in {"plot", "present", "narrate"} :
                                    Failed(a, 0)})

\* C6: if decomposition fails or returns an empty list, a report is still
\* produced with an empty subtopic list and an empty data table, nothing is
\* fetched, no fetch failure is recorded, and the plot step is still invoked
\* on the empty table.
C6_EmptyDecomposition ==
    (returned /\ (Failed("decompose", 0) \/ subtopics = <<>>)) =>
        /\ Populated(report)
        /\ report.subtopics = <<>>
        /\ report.data = <<>>
        /\ \A k \in 1..Len(trace) : trace[k].step # "fetch"
        /\ FetchFailureEntries(report, 1) = {}
        /\ Attempted("plot", 0)
        /\ Result("plot", 0) = <<>>

====
